---- MODULE Spec2Model ----
(***************************************************************************)
(* Ingestion / aggregation / caching pipeline of the COVID dashboard       *)
(* backend: data_processor.process_provincial_data, the CRUD layer over    *)
(* the regional_covid_data table, and the endpoint get_regional_data with  *)
(* its helper ensure_data_is_available.                                    *)
(***************************************************************************)
EXTENDS Integers, Sequences, FiniteSets, TLC

VARIABLES
    rawIn,      \* the raw_data_list handed to process_provincial_data
    procOut,    \* the list it returned
    procPc,     \* "ready" before that call, "done" after it
    store,      \* the committed rows of table regional_covid_data
    lastUpsert, \* the latest create_or_update_bulk call: batch, table before, outcome
    call,       \* per request slot: where the get_regional_data coroutine stands
    started,    \* number of requests begun so far
    lastDone,   \* the request that completed most recently
    pair,       \* set as a request completes right after another for the same date
    lastRead,   \* the latest direct get_by_date call: its arguments and what it gave
    helped      \* the latest _get_and_process_data_for_date call and its outcome

procVars == <<rawIn, procOut, procPc>>
storeVars == <<store, lastUpsert>>
gateVars == <<call, started, lastDone, pair>>
readVars == <<lastRead>>
helperVars == <<helped>>
vars == <<rawIn, procOut, procPc, store, lastUpsert, call, started, lastDone, pair, lastRead,
          helped>>

----------------------------------------------------------------------------
(* Bounds *)

MaxLen == 3         \* longest raw_data_list handed to the processor
MaxBatch == 2       \* longest batch handed directly to create_or_update_bulk
MaxFeedLen == 2     \* longest raw list an upstream fetch returns to a request
MaxCalls == 2       \* requests begun in one run
MaxUpserts == 2     \* direct create_or_update_bulk calls in one run
MaxRows == 3        \* most rows of a table that get_by_date is called on directly
MaxReapplied == 3   \* longest batch handed to create_or_update_bulk again and again
MaxHelped == 2      \* _get_and_process_data_for_date calls in one run

\* The calendar dates of the model, in calendar order; the last is today.
Dates == {1, 2, 3}

\* date.today()
Today == CHOOSE d \in Dates : \A e \in Dates : e <= d

Yesterday == Today - 1

\* The dates requests ask for and upstream files report, but for the older
\* file of SpecIngest.
RecentDates == {Yesterday, Today}

----------------------------------------------------------------------------
(* Python values of the loosely typed province records.  A string is a      *)
(* sequence of one-character strings; a missing key reads as None through   *)
(* dict.get.  The text of the 'data' field is kept as what precedes its    *)
(* first 'T' (head: d >= 1 the ISO text of date d, 0 text that is no ISO    *)
(* date, -1 nothing) and whether a 'T...' time part follows.                *)

NoneV == [t |-> "none"]
IntV(n) == [t |-> "int", n |-> n]
StrV(s) == [t |-> "str", s |-> s]
DateStrV(h, hasTime) == [t |-> "datestr", head |-> h, time |-> hasTime]

Digits == <<"0", "1", "2", "3", "4", "5", "6", "7", "8", "9">>

IsDigit(c) == \E i \in 1..10 : Digits[i] = c

DigitVal(c) == (CHOOSE i \in 1..10 : Digits[i] = c) - 1

RECURSIVE NatToStr(_)
NatToStr(n) == IF n < 10 THEN <<Digits[n + 1]>>
               ELSE NatToStr(n \div 10) \o <<Digits[(n % 10) + 1]>>

\* str(value)
PyStr(v) == IF v.t = "str" THEN v.s
            ELSE IF v.t = "int"
                 THEN (IF v.n < 0 THEN <<"-">> \o NatToStr(0 - v.n) ELSE NatToStr(v.n))
                 ELSE <<"N", "o", "n", "e">>

RECURSIVE LStrip(_)
LStrip(s) == IF s # <<>> /\ Head(s) = " " THEN LStrip(Tail(s)) ELSE s

RECURSIVE RStrip(_)
RStrip(s) == IF s # <<>> /\ s[Len(s)] = " " THEN RStrip(SubSeq(s, 1, Len(s) - 1)) ELSE s

\* str.strip()
Strip(s) == RStrip(LStrip(s))

RECURSIVE DigitsToNat(_)
DigitsToNat(s) == IF s = <<>> THEN 0
                  ELSE 10 * DigitsToNat(SubSeq(s, 1, Len(s) - 1)) + DigitVal(s[Len(s)])

AllDigits(s) == s # <<>> /\ \A i \in 1..Len(s) : IsDigit(s[i])

\* int(value): [ok, n].  An int is itself; a string is stripped and read as
\* an optionally signed decimal; anything else raises ValueError/TypeError.
PyInt(v) ==
    IF v.t = "int" THEN [ok |-> TRUE, n |-> v.n]
    ELSE IF v.t = "str"
    THEN LET s == Strip(v.s)
             body == IF s # <<>> /\ Head(s) \in {"-", "+"} THEN Tail(s) ELSE s
         IN  IF AllDigits(body)
             THEN [ok |-> TRUE,
                   n |-> IF Head(s) = "-" THEN 0 - DigitsToNat(body) ELSE DigitsToNat(body)]
             ELSE [ok |-> FALSE, n |-> 0]
    ELSE [ok |-> FALSE, n |-> 0]

\* Python truthiness of a field value: None, "" and 0 are falsy.
Truthy(v) ==
    CASE v.t = "none" -> FALSE
      [] v.t = "str" -> v.s # <<>>
      [] v.t = "int" -> v.n # 0
      [] v.t = "datestr" -> ~(v.head = -1 /\ ~v.time)

----------------------------------------------------------------------------
(* data_processor.py *)

\* _parse_date_from_string: date_str.split('T')[0] parsed as an ISO date.
\* Raises DataProcessingError (ok = FALSE) on text that is no date.
parse_date_from_string(v) ==
    IF v.t = "datestr" /\ v.head >= 1
    THEN [ok |-> TRUE, date |-> v.head]
    ELSE [ok |-> FALSE, date |-> 0]

\* _get_int_value with the except branch returning 0 instead of raising.
get_int_value_lenient(v) ==
    IF v.t = "none" \/ Strip(PyStr(v)) = <<>> \/ ~PyInt(v).ok
    THEN [ok |-> TRUE, n |-> 0]
    ELSE PyInt(v)

\* _get_int_value without the None / blank shortcut.
get_int_value_strict(v) == PyInt(v)

\* _get_int_value: None and blank strings are 0, otherwise int(value);
\* raises DataProcessingError (ok = FALSE) when int() does.
get_int_value(v) ==
    IF v.t = "none" \/ Strip(PyStr(v)) = <<>>
    THEN [ok |-> TRUE, n |-> 0]
    ELSE PyInt(v)

\* The loop body with "=" in place of "+=" on total_positive_cases.
ProcStep_lastWins(acc, rec) ==
    LET d == parse_date_from_string(rec.data)
        rd == IF acc.report_date = 0 THEN d.date ELSE acc.report_date
        dated == [acc EXCEPT !.report_date = rd]
        code == Strip(PyStr(rec.codice_regione))
        name == Strip(PyStr(rec.denominazione_regione))
        cases == get_int_value(rec.totale_casi)
        regs == acc.regions
        hit == {i \in 1..Len(regs) : regs[i].region_code = code}
    IN  IF ~Truthy(rec.data) \/ ~d.ok THEN acc
        ELSE IF rec.codice_regione.t = "none" \/ code = <<>> THEN dated
        ELSE IF ~Truthy(rec.denominazione_regione) \/ name = <<>> THEN dated
        ELSE IF ~cases.ok THEN dated
        ELSE IF hit = {}
        THEN [dated EXCEPT !.regions =
                Append(regs, [submission_date |-> rd, region_code |-> code,
                              region_name |-> name, total_positive_cases |-> cases.n])]
        ELSE LET i == CHOOSE j \in hit : TRUE
             IN  [dated EXCEPT !.regions[i].total_positive_cases = cases.n]

\* The loop body with the region name, not the region code, as the key of
\* aggregated_regions.
ProcStep_byName(acc, rec) ==
    LET d == parse_date_from_string(rec.data)
        rd == IF acc.report_date = 0 THEN d.date ELSE acc.report_date
        dated == [acc EXCEPT !.report_date = rd]
        code == Strip(PyStr(rec.codice_regione))
        name == Strip(PyStr(rec.denominazione_regione))
        cases == get_int_value(rec.totale_casi)
        regs == acc.regions
        hit == {i \in 1..Len(regs) : regs[i].region_name = name}
    IN  IF ~Truthy(rec.data) \/ ~d.ok THEN acc
        ELSE IF rec.codice_regione.t = "none" \/ code = <<>> THEN dated
        ELSE IF ~Truthy(rec.denominazione_regione) \/ name = <<>> THEN dated
        ELSE IF ~cases.ok THEN dated
        ELSE IF hit = {}
        THEN [dated EXCEPT !.regions =
                Append(regs, [submission_date |-> rd, region_code |-> code,
                              region_name |-> name, total_positive_cases |-> cases.n])]
        ELSE LET i == CHOOSE j \in hit : TRUE
             IN  [dated EXCEPT !.regions[i].total_positive_cases = @ + cases.n]

\* The loop body assigning region_name on every accepted record, not only on
\* the first of its code.
ProcStep_lastName(acc, rec) ==
    LET d == parse_date_from_string(rec.data)
        rd == IF acc.report_date = 0 THEN d.date ELSE acc.report_date
        dated == [acc EXCEPT !.report_date = rd]
        code == Strip(PyStr(rec.codice_regione))
        name == Strip(PyStr(rec.denominazione_regione))
        cases == get_int_value(rec.totale_casi)
        regs == acc.regions
        hit == {i \in 1..Len(regs) : regs[i].region_code = code}
    IN  IF ~Truthy(rec.data) \/ ~d.ok THEN acc
        ELSE IF rec.codice_regione.t = "none" \/ code = <<>> THEN dated
        ELSE IF ~Truthy(rec.denominazione_regione) \/ name = <<>> THEN dated
        ELSE IF ~cases.ok THEN dated
        ELSE IF hit = {}
        THEN [dated EXCEPT !.regions =
                Append(regs, [submission_date |-> rd, region_code |-> code,
                              region_name |-> name, total_positive_cases |-> cases.n])]
        ELSE LET i == CHOOSE j \in hit : TRUE
             IN  [dated EXCEPT !.regions[i].total_positive_cases = @ + cases.n,
                               !.regions[i].region_name = name]

\* The loop body reaching into aggregated_regions[key] before it converts the
\* case count, so that a record skipped for its count leaves an entry.
ProcStep_entryOnSkip(acc, rec) ==
    LET d == parse_date_from_string(rec.data)
        rd == IF acc.report_date = 0 THEN d.date ELSE acc.report_date
        dated == [acc EXCEPT !.report_date = rd]
        code == Strip(PyStr(rec.codice_regione))
        name == Strip(PyStr(rec.denominazione_regione))
        cases == get_int_value(rec.totale_casi)
        regs == acc.regions
        hit == {i \in 1..Len(regs) : regs[i].region_code = code}
    IN  IF ~Truthy(rec.data) \/ ~d.ok THEN acc
        ELSE IF rec.codice_regione.t = "none" \/ code = <<>> THEN dated
        ELSE IF ~Truthy(rec.denominazione_regione) \/ name = <<>> THEN dated
        ELSE IF hit = {}
        THEN [dated EXCEPT !.regions =
                Append(regs, [submission_date |-> rd, region_code |-> code,
                              region_name |-> name,
                              total_positive_cases |-> IF cases.ok THEN cases.n ELSE 0])]
        ELSE IF ~cases.ok THEN dated
        ELSE LET i == CHOOSE j \in hit : TRUE
             IN  [dated EXCEPT !.regions[i].total_positive_cases = @ + cases.n]

\* One pass of the loop of process_provincial_data over province_record.
\* acc.report_date is 0 while report_date is None; acc.regions holds the
\* values of aggregated_regions in insertion order.  report_date is assigned
\* as soon as the date parses, before the other fields are looked at.
ProcStep(acc, rec) ==
    LET d == parse_date_from_string(rec.data)
        rd == IF acc.report_date = 0 THEN d.date ELSE acc.report_date
        dated == [acc EXCEPT !.report_date = rd]
        code == Strip(PyStr(rec.codice_regione))
        name == Strip(PyStr(rec.denominazione_regione))
        cases == get_int_value(rec.totale_casi)
        regs == acc.regions
        hit == {i \in 1..Len(regs) : regs[i].region_code = code}
    IN  IF ~Truthy(rec.data) \/ ~d.ok THEN acc
        ELSE IF rec.codice_regione.t = "none" \/ code = <<>> THEN dated
        ELSE IF ~Truthy(rec.denominazione_regione) \/ name = <<>> THEN dated
        ELSE IF ~cases.ok THEN dated
        ELSE IF hit = {}
        THEN [dated EXCEPT !.regions =
                Append(regs, [submission_date |-> rd, region_code |-> code,
                              region_name |-> name, total_positive_cases |-> cases.n])]
        ELSE LET i == CHOOSE j \in hit : TRUE
             IN  [dated EXCEPT !.regions[i].total_positive_cases = @ + cases.n]

RECURSIVE ProcLoop(_, _)
ProcLoop(raw, acc) ==
    IF raw = <<>> THEN acc ELSE ProcLoop(Tail(raw), ProcStep(acc, Head(raw)))

\* process_provincial_data(raw_data_list): list(aggregated_regions.values())
process_provincial_data(raw) ==
    IF raw = <<>> THEN <<>>
    ELSE ProcLoop(raw, [report_date |-> 0, regions |-> <<>>]).regions

----------------------------------------------------------------------------
(* models/region_data.py and crud/crud_region_data.py: the table            *)
(* regional_covid_data as the set of its committed rows.                    *)

Row(i, d, c, n, t) ==
    [id |-> i, submission_date |-> d, region_code |-> c, region_name |-> n,
     total_positive_cases |-> t]

\* The table without its UniqueConstraint.
UniqueOk_absent(rows) == TRUE

\* UniqueConstraint('submission_date', 'region_name'), beside the primary key.
UniqueOk(rows) ==
    \A r1, r2 \in rows :
        (r1.submission_date = r2.submission_date /\ r1.region_name = r2.region_name)
            => r1.id = r2.id

\* The autoincremented primary key of the next inserted row (rows are never
\* deleted, so it is one past the largest id).
NextId(rows) == Cardinality(rows) + 1

\* data_exists_for_date that never finds a row.
data_exists_for_date_never(rows, d) == FALSE

\* CRUDRegionalCovidData.data_exists_for_date
data_exists_for_date(rows, d) == \E r \in rows : r.submission_date = d

\* CRUDRegionalCovidData.get_latest_submission_date (0 for None)
get_latest_submission_date(rows) ==
    IF rows = {} THEN 0
    ELSE CHOOSE d \in {r.submission_date : r \in rows} :
            \A r \in rows : r.submission_date <= d

\* get_by_date_and_region_code filtering on the date alone.
get_by_date_and_region_code_dateOnly(rows, d, c) ==
    LET m == {r \in rows : r.submission_date = d}
    IN  IF m = {} THEN {}
        ELSE {CHOOSE r \in m : \A q \in m : r.id <= q.id}

\* CRUDRegionalCovidData.get_by_date_and_region_code: .first() of the rows
\* matching date and code, the empty set for None.
get_by_date_and_region_code(rows, d, c) ==
    LET m == {r \in rows : r.submission_date = d /\ r.region_code = c}
    IN  IF m = {} THEN {}
        ELSE {CHOOSE r \in m : \A q \in m : r.id <= q.id}

Alphabet == <<" ", "-", "0", "1", "2", "3", "4", "5", "6", "7", "8", "9",
              "A", "B", "C", "N", "X", "Y", "Z", "e", "n", "o">>

CharRank(c) == CHOOSE i \in 1..Len(Alphabet) : Alphabet[i] = c

\* Text order of two strings, as the database compares region names.
RECURSIVE StrLess(_, _)
StrLess(a, b) ==
    IF b = <<>> THEN FALSE
    ELSE IF a = <<>> THEN TRUE
    ELSE IF Head(a) = Head(b) THEN StrLess(Tail(a), Tail(b))
    ELSE CharRank(Head(a)) < CharRank(Head(b))

\* ORDER BY total_positive_cases DESC, region_name ASC
DefaultBefore(r, q) ==
    \/ r.total_positive_cases > q.total_positive_cases
    \/ /\ r.total_positive_cases = q.total_positive_cases
       /\ StrLess(r.region_name, q.region_name)

RECURSIVE SortRows(_)
SortRows(rows) ==
    IF rows = {} THEN <<>>
    ELSE LET first == CHOOSE r \in rows : \A q \in rows : ~DefaultBefore(q, r)
         IN  <<first>> \o SortRows(rows \ {first})

\* CRUDRegionalCovidData.get_by_date with sort_by = None
get_by_date(rows, d) == SortRows({r \in rows : r.submission_date = d})

\* sort_by = None
NoSort == "<None>"

\* The mapped columns of RegionalCovidData.
Columns == {"id", "submission_date", "region_code", "region_name", "total_positive_cases"}

\* Attributes of the class RegionalCovidData that are no column and are truthy.
ClassAttrs == {"__tablename__", "metadata"}

\* Row r sorts strictly before row q in ascending order of the column.
ColLess(col, r, q) ==
    IF col \in {"region_code", "region_name"} THEN StrLess(r[col], q[col])
    ELSE r[col] < q[col]

\* The rows in every order that ORDER BY col ASC / DESC allows: rows equal
\* in the column come in whatever order the engine produces them.
OrderedBy(rows, col, ascending) ==
    {s \in [1..Cardinality(rows) -> rows] :
        /\ \A i, j \in 1..Cardinality(rows) : i # j => s[i] # s[j]
        /\ \A i, j \in 1..Cardinality(rows) :
              i < j => IF ascending THEN ~ColLess(col, s[j], s[i])
                                    ELSE ~ColLess(col, s[i], s[j])}

\* CRUDRegionalCovidData.get_by_date(db, submission_date, sort_by,
\* sort_order): the set of results query.all() may give.  getattr finds a
\* column, another attribute of the class (order_by(desc(...)) of which is
\* no ORDER BY expression: the query raises), or nothing.
get_by_date_sorted(rows, d, sort_by, sort_order) ==
    LET m == {r \in rows : r.submission_date = d}
    IN  IF sort_by \in {NoSort, ""} THEN {[ok |-> TRUE, rows |-> SortRows(m)]}
        ELSE IF sort_by \in Columns
        THEN {[ok |-> TRUE, rows |-> s] : s \in OrderedBy(m, sort_by, sort_order = "asc")}
        ELSE IF sort_by \in ClassAttrs THEN {[ok |-> FALSE, rows |-> <<>>]}
        ELSE {[ok |-> TRUE, rows |-> SortRows(m)]}

\* The loop of create_or_update_bulk inside the session's transaction: w is
\* the table as the transaction sees it.  Each pending row is flushed by the
\* next query (autoflush) or by commit; a flush that breaks the unique
\* constraint raises IntegrityError and ends the loop.
RECURSIVE BulkLoop(_, _)
BulkLoop(w, batch) ==
    IF batch = <<>> THEN [ok |-> TRUE, rows |-> w]
    ELSE LET data_in == Head(batch)
             found == get_by_date_and_region_code(w, data_in.submission_date,
                                                  data_in.region_code)
             w2 == IF found # {}
                   THEN LET db_obj == CHOOSE r \in found : TRUE
                        IN  (w \ {db_obj}) \cup
                            {[db_obj EXCEPT
                                !.region_name = data_in.region_name,
                                !.total_positive_cases = data_in.total_positive_cases]}
                   ELSE w \cup {Row(NextId(w), data_in.submission_date, data_in.region_code,
                                    data_in.region_name, data_in.total_positive_cases)}
         IN  IF UniqueOk(w2) THEN BulkLoop(w2, Tail(batch))
             ELSE [ok |-> FALSE, rows |-> w]

\* create_or_update_bulk replacing the rows of the batch's dates: it deletes
\* them before it inserts the batch.
create_or_update_bulk_replace(rows, batch, commitOk) ==
    LET kept == {r \in rows : \A i \in 1..Len(batch) :
                                r.submission_date # batch[i].submission_date}
        r == BulkLoop(kept, batch)
    IN  IF r.ok /\ commitOk THEN [ok |-> TRUE, rows |-> r.rows]
        ELSE [ok |-> FALSE, rows |-> rows]

\* create_or_update_bulk whose failure path keeps what was flushed so far.
create_or_update_bulk_partial(rows, batch, commitOk) ==
    LET r == BulkLoop(rows, batch)
    IN  IF r.ok /\ commitOk THEN [ok |-> TRUE, rows |-> r.rows]
        ELSE [ok |-> FALSE, rows |-> r.rows]

\* CRUDRegionalCovidData.create_or_update_bulk: the loop, then db.commit();
\* any failure (a constraint, or commitOk = FALSE for a commit the engine
\* refuses) rolls the transaction back and raises.
create_or_update_bulk(rows, batch, commitOk) ==
    LET r == BulkLoop(rows, batch)
    IN  IF r.ok /\ commitOk THEN [ok |-> TRUE, rows |-> r.rows]
        ELSE [ok |-> FALSE, rows |-> rows]

\* schemas/region_data_schema.py: RegionalDataInDBBase field constraints
\* (model_validate raises ValidationError when one fails).
Validates(item) ==
    /\ Len(item.region_code) >= 1 /\ Len(item.region_code) <= 3
    /\ Len(item.region_name) >= 1
    /\ item.total_positive_cases >= 0

----------------------------------------------------------------------------
(* Raw province records fed to the processor *)

GoodData == {DateStrV(d, TRUE) : d \in RecentDates}
BadData == {NoneV, DateStrV(-1, FALSE), DateStrV(0, TRUE)}

GoodCode == {IntV(1), StrV(<<"2">>)}
BadCode == {NoneV, StrV(<<" ">>)}

NameA == StrV(<<"A">>)
GoodName == {NameA, StrV(<<"B", " ">>)}
BadName == {NoneV, StrV(<<" ">>)}

GoodCase == {IntV(1), StrV(<<"2">>)}
ZeroCase == {NoneV, StrV(<<>>), StrV(<<" ">>)}
BadCase == {StrV(<<"X", "Y", "Z">>)}
NegCase == StrV(<<"-", "1">>)

Rec(d, c, n, k) ==
    [data |-> d, codice_regione |-> c, denominazione_regione |-> n, totale_casi |-> k]

\* Well-formed records of both dates, and yesterday's records with one field
\* off the well-formed values.
RawRecords ==
    {Rec(d, c, NameA, k) : d \in GoodData, c \in GoodCode, k \in GoodCase}
    \cup {Rec(d, c, StrV(<<"B", " ">>), IntV(1)) : d \in GoodData, c \in GoodCode}
    \cup {Rec(DateStrV(Yesterday, TRUE), IntV(1), NameA, k) :
              k \in ZeroCase \cup BadCase \cup {NegCase}}
    \cup {Rec(DateStrV(Yesterday, TRUE), IntV(1), n, IntV(1)) : n \in BadName}
    \cup {Rec(DateStrV(Yesterday, TRUE), c, NameA, IntV(1)) : c \in BadCode}
    \cup {Rec(d, IntV(1), NameA, IntV(1)) : d \in BadData}

RawLists == UNION {[1..n -> RawRecords] : n \in 0..MaxLen}

----------------------------------------------------------------------------
(* api/api_v1/endpoints/regions.py: get_regional_data and                   *)
(* ensure_data_is_available.  The coroutine runs on one event loop and      *)
(* yields only while it awaits the upstream fetch, so a request is two      *)
(* atomic steps: up to the fetch, and from the fetch's answer to the end.   *)

Slots == {1, 2}

NoUpsert == [n |-> 0, batch |-> <<>>, before |-> {}, commitOk |-> TRUE, ok |-> TRUE]

IdleCall ==
    [pc |-> "idle", target |-> 0, fetcher |-> "", fetches |-> 0, status |-> 0,
     err |-> "", rows |-> <<>>, upsertDate |-> 0, upsertOk |-> FALSE,
     refused |-> FALSE, twin |-> FALSE, after |-> 0,
     answer |-> "", aggregated |-> FALSE, adopted |-> 0, regions |-> 0,
     fetchDate |-> 0]

NoDone == [seq |-> 0, target |-> 0, status |-> 0, rows |-> <<>>, fetches |-> 0]

NoPair == [first |-> NoDone, second |-> NoDone]

NoRead == [date |-> 0, sort_by |-> NoSort, sort_order |-> "", ok |-> TRUE, rows |-> <<>>]

\* What the awaited fetcher hands back: DataNotFoundError (404 upstream),
\* another DataFetchingError, or the decoded list of province records.
NotFound == [t |-> "not_found", raw |-> <<>>]
FetchFailed == [t |-> "error", raw |-> <<>>]
Fetched(raw) == [t |-> "data", raw |-> raw]

\* csv.DictReader hands every cell back as text.
CsvCell(v) == IF v.t = "int" THEN StrV(PyStr(v)) ELSE v

AsCsv(raw) ==
    [i \in 1..Len(raw) |->
        [data |-> raw[i].data,
         codice_regione |-> CsvCell(raw[i].codice_regione),
         denominazione_regione |-> CsvCell(raw[i].denominazione_regione),
         totale_casi |-> CsvCell(raw[i].totale_casi)]]

\* The raw lists an upstream fetch may hand to a request.
FeedRecords ==
    {Rec(d, IntV(1), NameA, IntV(1)) : d \in GoodData}
    \cup {Rec(DateStrV(Yesterday, TRUE), StrV(<<"2">>), n, IntV(1)) : n \in GoodName}
    \cup {Rec(DateStrV(Yesterday, TRUE), IntV(1), NameA, k) : k \in BadCase}

FeedLists == UNION {[1..n -> FeedRecords] : n \in 0..MaxFeedLen}

\* process_provincial_data tabulated over the lists a fetch may return (as
\* decoded from JSON, and as read from CSV).
Processed ==
    [raw \in FeedLists \cup {AsCsv(r) : r \in FeedLists} |-> process_provincial_data(raw)]

\* All a request keeps of a fetched list is whether it is empty and what
\* process_provincial_data makes of it, so lists alike in that are one answer.
FeedClass(raw) == <<raw = <<>>, Processed[raw], Processed[AsCsv(raw)]>>

FeedAnswers ==
    {CHOOSE raw \in FeedLists : FeedClass(raw) = k : k \in {FeedClass(r) : r \in FeedLists}}

FetchResults == {NotFound, FetchFailed} \cup {Fetched(raw) : raw \in FeedAnswers}

\* What ensure_data_is_available leaves behind: status 200 when it returns,
\* the HTTPException's status code when it raises; the table; the date and
\* outcome of the create_or_update_bulk call it made, if any.
Outcome(status, err, rows, upDate, upOk, batch) ==
    [status |-> status, err |-> err, rows |-> rows,
     upsertDate |-> upDate, upsertOk |-> upOk, batch |-> batch, aggregated |-> FALSE]

\* Lines 177-197, the branch that saves: model_validate of every item, then
\* create_or_update_bulk; any exception becomes the 500 of line 197.
SaveProcessed(rows, processed, up) ==
    IF \E i \in 1..Len(processed) : ~Validates(processed[i])
    THEN Outcome(500, "internal", rows, 0, FALSE, processed)
    ELSE IF ~up.ok
    THEN Outcome(500, "internal", rows, processed[1].submission_date, FALSE, processed)
    ELSE Outcome(200, "", up.rows, processed[1].submission_date, TRUE, processed)

\* Lines 169-184 without the data_exists_for_date check of line 177: the
\* processed list is saved whatever the table holds.
EnsureProcessed_alwaysSave(rows, processed, commitOk) ==
    IF processed = <<>> THEN Outcome(500, "not_processed", rows, 0, FALSE, processed)
    ELSE SaveProcessed(rows, processed, create_or_update_bulk(rows, processed, commitOk))

\* Lines 169-184 answering an empty processed list as an empty raw list.
EnsureProcessed_emptyAsNoRaw(rows, processed, commitOk) ==
    IF processed = <<>> THEN Outcome(404, "no_raw", rows, 0, FALSE, processed)
    ELSE IF data_exists_for_date(rows, processed[1].submission_date)
    THEN Outcome(200, "", rows, 0, FALSE, processed)
    ELSE SaveProcessed(rows, processed, create_or_update_bulk(rows, processed, commitOk))

\* Lines 169-184: from the processed list on.
EnsureProcessed(rows, processed, commitOk) ==
    IF processed = <<>> THEN Outcome(500, "not_processed", rows, 0, FALSE, processed)
    ELSE IF data_exists_for_date(rows, processed[1].submission_date)
    THEN Outcome(200, "", rows, 0, FALSE, processed)
    ELSE SaveProcessed(rows, processed, create_or_update_bulk(rows, processed, commitOk))

\* processed_data = data_processor.process_provincial_data(raw_data), read
\* off the table where the table has the list.
Aggregate(raw) ==
    IF raw \in DOMAIN Processed THEN Processed[raw] ELSE process_provincial_data(raw)

\* The kind of answer the awaited fetch gave.
AnswerKind(res) == IF res.t = "data" /\ res.raw = <<>> THEN "empty" ELSE res.t

\* ensure_data_is_available answering DataNotFoundError as it answers the
\* other fetch errors.
EnsureAfterFetch_notFoundAsFailure(rows, res, commitOk) ==
    IF res.t \in {"not_found", "error"}
    THEN Outcome(502, "fetch_failed", rows, 0, FALSE, <<>>)
    ELSE IF res.raw = <<>> THEN Outcome(404, "no_raw", rows, 0, FALSE, <<>>)
    ELSE [EnsureProcessed(rows, Aggregate(res.raw), commitOk) EXCEPT !.aggregated = TRUE]

\* ensure_data_is_available answering every fetch error as it answers
\* DataNotFoundError.
EnsureAfterFetch_failureAsNotFound(rows, res, commitOk) ==
    IF res.t \in {"not_found", "error"}
    THEN Outcome(404, "source_not_found", rows, 0, FALSE, <<>>)
    ELSE IF res.raw = <<>> THEN Outcome(404, "no_raw", rows, 0, FALSE, <<>>)
    ELSE [EnsureProcessed(rows, Aggregate(res.raw), commitOk) EXCEPT !.aggregated = TRUE]

\* ensure_data_is_available from the fetch's answer on (lines 161-197).
EnsureAfterFetch(rows, res, commitOk) ==
    IF res.t = "not_found" THEN Outcome(404, "source_not_found", rows, 0, FALSE, <<>>)
    ELSE IF res.t = "error" THEN Outcome(502, "fetch_failed", rows, 0, FALSE, <<>>)
    ELSE IF res.raw = <<>> THEN Outcome(404, "no_raw", rows, 0, FALSE, <<>>)
    ELSE [EnsureProcessed(rows, Aggregate(res.raw), commitOk) EXCEPT !.aggregated = TRUE]

NoHelp == [n |-> 0, target |-> 0, answer |-> "", regions |-> 0, raised |-> "",
           status |-> 0, err |-> "", rows |-> <<>>]

\* What _get_and_process_data_for_date leaves behind: the HTTPException it
\* raised inside its try block, if any, the outcome that leaves the function,
\* the table, and the records it returns.
Helped(raised, status, err, rows, recs, regions, saved) ==
    [raised |-> raised, status |-> status, err |-> err, rows |-> rows, recs |-> recs,
     regions |-> regions, saved |-> saved]

\* Lines 85-89: the check of db_records after the try block.
HelperReturn(rows, recs, regions, saved) ==
    IF recs = <<>> THEN Helped("", 404, "no_data", rows, <<>>, regions, saved)
    ELSE Helped("", 200, "", rows, recs, regions, saved)

\* Lines 45-66: validate every item, create_or_update_bulk (whatever the
\* table holds for the adopted date), read the adopted date.  Whatever is
\* raised here reaches the except Exception of line 78.
HelperSave(rows, tgt, processed, commitOk) ==
    LET up == create_or_update_bulk(rows, processed, commitOk)
    IN  IF \E i \in 1..Len(processed) : ~Validates(processed[i])
        THEN Helped("", 500, "unexpected", rows, <<>>, Len(processed), FALSE)
        ELSE IF ~up.ok
        THEN Helped("", 500, "unexpected", rows, <<>>, Len(processed), TRUE)
        ELSE HelperReturn(up.rows, get_by_date(up.rows, processed[1].submission_date),
                          Len(processed), TRUE)

\* _get_and_process_data_for_date (lines 27-89), from the answer of the
\* awaited fetch on.  The HTTPExceptions of lines 37 and 43 are raised inside
\* the try block, whose except clauses name DataNotFoundError,
\* DataFetchingError, DataProcessingError and Exception: HTTPException is an
\* Exception, so line 78 catches it and line 80 raises the 500 in its place.
get_and_process_data_for_date(rows, tgt, res, commitOk) ==
    IF data_exists_for_date(rows, tgt) THEN HelperReturn(rows, get_by_date(rows, tgt), 0, FALSE)
    ELSE IF res.t = "not_found"
    THEN Helped("", 404, "source_not_found", rows, <<>>, 0, FALSE)
    ELSE IF res.t = "error" THEN Helped("", 502, "fetch_failed", rows, <<>>, 0, FALSE)
    ELSE IF res.raw = <<>> THEN Helped("no_raw", 500, "unexpected", rows, <<>>, 0, FALSE)
    ELSE IF Aggregate(res.raw) = <<>>
    THEN Helped("not_processed", 500, "unexpected", rows, <<>>, 0, FALSE)
    ELSE HelperSave(rows, tgt, Aggregate(res.raw), commitOk)

\* get_regional_data after ensure_data_is_available returned (lines 118-140)
ReadTail(rows, tgt) ==
    LET direct == get_by_date(rows, tgt)
        latest == get_latest_submission_date(rows)
        recs == IF direct = <<>> /\ tgt = Today /\ latest # 0
                THEN get_by_date(rows, latest) ELSE direct
    IN  IF recs = <<>> THEN [status |-> 404, err |-> "no_data", rows |-> <<>>]
        ELSE [status |-> 200, err |-> "", rows |-> recs]

InFlight(p) == call[p].pc = "fetching"

\* The slot a new request takes: the lowest one not awaiting a fetch (a slot
\* whose request is done has sent its response and is free again).
Free(p) == ~InFlight(p) /\ \A q \in Slots : q < p => InFlight(q)

\* Completion bookkeeping shared by both ways a request ends.
Complete(p, c) ==
    LET done == [seq |-> lastDone.seq + 1, target |-> c.target, status |-> c.status,
                 rows |-> c.rows, fetches |-> c.fetches]
    IN  /\ call' = [call EXCEPT ![p] = c]
        /\ lastDone' = done
        /\ pair' = IF c.after = lastDone.seq /\ lastDone.seq > 0
                      /\ lastDone.target = c.target
                   THEN [first |-> lastDone, second |-> done]
                   ELSE NoPair

\* A request whose target date is cached going to the upstream all the same.
BeginHit_refetch(p, tgt) ==
    /\ Free(p) /\ started < MaxCalls
    /\ data_exists_for_date(store, tgt)
    /\ started' = started + 1
    /\ call' = [call EXCEPT ![p] =
                    [IdleCall EXCEPT !.pc = "fetching", !.target = tgt,
                        !.fetcher = IF tgt = Today THEN "latest" ELSE "by_date",
                        !.fetchDate = IF tgt = Today THEN 0 ELSE tgt,
                        !.fetches = 1, !.after = lastDone.seq]]
    /\ pair' = NoPair
    /\ UNCHANGED <<procVars, storeVars, lastDone, readVars, helperVars>>

\* A request arrives whose target date is cached: no await, it runs to its end.
BeginHit(p, tgt) ==
    /\ Free(p) /\ started < MaxCalls
    /\ data_exists_for_date(store, tgt)
    /\ started' = started + 1
    /\ \E rd \in {ReadTail(store, tgt)} :
          Complete(p, [IdleCall EXCEPT !.pc = "done", !.target = tgt,
                          !.status = rd.status, !.err = rd.err, !.rows = rd.rows,
                          !.after = lastDone.seq])
    /\ UNCHANGED <<procVars, storeVars, readVars, helperVars>>

\* A cache miss that goes to the latest JSON whatever the target date.
BeginMiss_alwaysLatest(p, tgt) ==
    /\ Free(p) /\ started < MaxCalls
    /\ ~data_exists_for_date(store, tgt)
    /\ started' = started + 1
    /\ LET both == \E q \in Slots \ {p} : InFlight(q) /\ call[q].target = tgt
       IN  call' = [q \in Slots |->
                IF q = p
                THEN [IdleCall EXCEPT !.pc = "fetching", !.target = tgt,
                         !.fetcher = "latest", !.fetchDate = 0,
                         !.fetches = 1, !.twin = both, !.after = lastDone.seq]
                ELSE IF InFlight(q) /\ call[q].target = tgt
                     THEN [call[q] EXCEPT !.twin = TRUE]
                     ELSE call[q]]
    /\ pair' = NoPair
    /\ UNCHANGED <<procVars, storeVars, lastDone, readVars, helperVars>>

\* A request arrives whose target date is not cached: it issues the fetch
\* (latest JSON for today, the dated CSV otherwise) and awaits it.
BeginMiss(p, tgt) ==
    /\ Free(p) /\ started < MaxCalls
    /\ ~data_exists_for_date(store, tgt)
    /\ started' = started + 1
    /\ LET both == \E q \in Slots \ {p} : InFlight(q) /\ call[q].target = tgt
       IN  call' = [q \in Slots |->
                IF q = p
                THEN [IdleCall EXCEPT !.pc = "fetching", !.target = tgt,
                         !.fetcher = IF tgt = Today THEN "latest" ELSE "by_date",
                         !.fetchDate = IF tgt = Today THEN 0 ELSE tgt,
                         !.fetches = 1, !.twin = both, !.after = lastDone.seq]
                ELSE IF InFlight(q) /\ call[q].target = tgt
                     THEN [call[q] EXCEPT !.twin = TRUE]
                     ELSE call[q]]
    /\ pair' = NoPair
    /\ UNCHANGED <<procVars, storeVars, lastDone, readVars, helperVars>>

\* A request that answers a failed fetch by fetching once more.
Resume_retryOnError(p, res, commitOk) ==
    \/ /\ InFlight(p) /\ res.t = "error" /\ call[p].fetches < 2
       /\ call' = [call EXCEPT ![p].fetches = @ + 1]
       /\ UNCHANGED <<procVars, storeVars, started, lastDone, pair, readVars, helperVars>>
    \/ /\ InFlight(p)
       /\ ~(res.t = "error" /\ call[p].fetches < 2)
       /\ LET c == call[p]
              got == IF c.fetcher = "by_date" /\ res.t = "data"
                     THEN Fetched(AsCsv(res.raw)) ELSE res
          IN  \E e \in {EnsureAfterFetch(store, got, commitOk)} :
              \E rd \in {IF e.status = 200 THEN ReadTail(e.rows, c.target)
                          ELSE [status |-> e.status, err |-> e.err, rows |-> <<>>]} :
                /\ commitOk \/ e.upsertDate # 0
                /\ store' = e.rows
                /\ lastUpsert' = IF e.upsertDate # 0
                                 THEN [n |-> lastUpsert.n + 1, batch |-> e.batch,
                                       before |-> store, commitOk |-> commitOk,
                                       ok |-> e.upsertOk]
                                 ELSE lastUpsert
                /\ Complete(p, [c EXCEPT !.pc = "done", !.status = rd.status,
                                   !.err = rd.err, !.rows = rd.rows,
                                   !.upsertDate = e.upsertDate, !.upsertOk = e.upsertOk,
                                   !.refused = (e.upsertDate # 0 /\ ~commitOk),
                                   !.answer = AnswerKind(res),
                                   !.aggregated = e.aggregated,
                                   !.regions = Len(e.batch),
                                   !.adopted = IF e.batch = <<>> THEN 0
                                               ELSE e.batch[1].submission_date])
       /\ UNCHANGED <<procVars, started, readVars, helperVars>>

\* The fetch answers and the request runs to its end: aggregate, reconcile
\* the adopted date, upsert, read.  commitOk is the engine's answer to the
\* commit, which counts only when a commit is made.
Resume(p, res, commitOk) ==
    /\ InFlight(p)
    /\ LET c == call[p]
           got == IF c.fetcher = "by_date" /\ res.t = "data"
                  THEN Fetched(AsCsv(res.raw)) ELSE res
       IN  \E e \in {EnsureAfterFetch(store, got, commitOk)} :
           \E rd \in {IF e.status = 200 THEN ReadTail(e.rows, c.target)
                       ELSE [status |-> e.status, err |-> e.err, rows |-> <<>>]} :
             /\ commitOk \/ e.upsertDate # 0
             /\ store' = e.rows
             /\ lastUpsert' = IF e.upsertDate # 0
                              THEN [n |-> lastUpsert.n + 1, batch |-> e.batch,
                                    before |-> store, commitOk |-> commitOk,
                                    ok |-> e.upsertOk]
                              ELSE lastUpsert
             /\ Complete(p, [c EXCEPT !.pc = "done", !.status = rd.status,
                                !.err = rd.err, !.rows = rd.rows,
                                !.upsertDate = e.upsertDate, !.upsertOk = e.upsertOk,
                                !.refused = (e.upsertDate # 0 /\ ~commitOk),
                                !.answer = AnswerKind(res),
                                !.aggregated = e.aggregated,
                                !.regions = Len(e.batch),
                                !.adopted = IF e.batch = <<>> THEN 0
                                            ELSE e.batch[1].submission_date])
    /\ UNCHANGED <<procVars, started, readVars, helperVars>>

----------------------------------------------------------------------------
(* Specifications *)

ProcIdle == rawIn = <<>> /\ procOut = <<>> /\ procPc = "idle"

StoreEmpty == store = {} /\ lastUpsert = NoUpsert

GateIdle ==
    /\ call = [p \in Slots |-> IdleCall]
    /\ started = 0
    /\ lastDone = NoDone
    /\ pair = NoPair

ReadIdle == lastRead = NoRead

HelperIdle == helped = NoHelp

\* Spec: requests against an initially empty table.
Init == ProcIdle /\ StoreEmpty /\ GateIdle /\ ReadIdle /\ HelperIdle

Next ==
    \/ \E p \in Slots, tgt \in RecentDates : BeginHit(p, tgt)
    \/ \E p \in Slots, tgt \in RecentDates : BeginMiss(p, tgt)
    \/ \E p \in Slots, res \in FetchResults, commitOk \in BOOLEAN : Resume(p, res, commitOk)

Spec == Init /\ [][Next]_vars

\* SpecFair: requests against an upstream that answers with at most one
\* record, and no fetch awaited for ever.  The httpx client of either fetcher
\* has timeout=30.0: a fetch that nothing else answers raises
\* httpx.RequestError, which the fetcher turns into DataFetchingError.
ShortResults ==
    {NotFound, FetchFailed, Fetched(<<>>)} \cup {Fetched(<<r>>) : r \in FeedRecords}

FairNext ==
    \/ \E p \in Slots, tgt \in RecentDates : BeginHit(p, tgt)
    \/ \E p \in Slots, tgt \in RecentDates : BeginMiss(p, tgt)
    \/ \E p \in Slots, res \in ShortResults, commitOk \in BOOLEAN : Resume(p, res, commitOk)

TimesOut(p) == Resume(p, FetchFailed, TRUE)

SpecFair == Init /\ [][FairNext]_vars /\ \A p \in Slots : WF_vars(TimesOut(p))

\* SpecProc: one call of process_provincial_data on a bounded input.
ProcInit ==
    /\ rawIn \in RawLists
    /\ procOut = <<>>
    /\ procPc = "ready"
    /\ StoreEmpty /\ GateIdle /\ ReadIdle /\ HelperIdle

ProcessCall ==
    /\ procPc = "ready"
    /\ procOut' = process_provincial_data(rawIn)
    /\ procPc' = "done"
    /\ UNCHANGED <<rawIn, storeVars, gateVars, readVars, helperVars>>

ProcNext == ProcessCall

SpecProc == ProcInit /\ [][ProcNext]_vars

\* SpecStore: create_or_update_bulk called directly, any number of times.
Item(d, c, n, t) ==
    [submission_date |-> d, region_code |-> c, region_name |-> n,
     total_positive_cases |-> t]

BatchItems ==
    {Item(1, c, nt[1], nt[2]) :
        c \in {<<"1">>, <<"2">>}, nt \in {<< <<"A">>, 1 >>, << <<"B">>, 2 >>}}
    \cup {Item(2, <<"1">>, <<"A">>, 1)}

Batches == UNION {[1..n -> BatchItems] : n \in 0..MaxBatch}

UpsertCall(batch, commitOk) ==
    /\ lastUpsert.n < MaxUpserts
    /\ \E r \in {create_or_update_bulk(store, batch, commitOk)} :
           /\ store' = r.rows
           /\ lastUpsert' = [n |-> lastUpsert.n + 1, batch |-> batch,
                             before |-> store, commitOk |-> commitOk, ok |-> r.ok]
    /\ UNCHANGED <<procVars, gateVars, readVars, helperVars>>

StoreInit == ProcIdle /\ StoreEmpty /\ GateIdle /\ ReadIdle /\ HelperIdle

StoreNext == \E batch \in Batches, commitOk \in BOOLEAN : UpsertCall(batch, commitOk)

SpecStore == StoreInit /\ [][StoreNext]_vars

\* SpecReapply: create_or_update_bulk called on the empty table and then
\* again with the batch of the call before.
ReappliedBatches == UNION {[1..n -> BatchItems] : n \in 0..MaxReapplied}

ReapplyNext ==
    \E batch \in ReappliedBatches, commitOk \in BOOLEAN :
        /\ lastUpsert.n > 0 => batch = lastUpsert.batch
        /\ UpsertCall(batch, commitOk)

SpecReapply == StoreInit /\ [][ReapplyNext]_vars

\* SpecHelper: _get_and_process_data_for_date called on an initially empty
\* table, one call after another (nothing under src/ calls it, so no other
\* coroutine runs while it awaits its fetch).
HelperCall(tgt, res, commitOk) ==
    /\ helped.n < MaxHelped
    /\ LET got == IF tgt # Today /\ res.t = "data" THEN Fetched(AsCsv(res.raw)) ELSE res
           missed == ~data_exists_for_date(store, tgt)
       IN  \E h \in {get_and_process_data_for_date(store, tgt, got, commitOk)} :
             /\ commitOk \/ h.saved
             /\ missed \/ res = NotFound
             /\ store' = h.rows
             /\ lastUpsert' = IF h.saved
                              THEN [n |-> lastUpsert.n + 1,
                                    batch |-> Aggregate(got.raw), before |-> store,
                                    commitOk |-> commitOk, ok |-> h.err # "unexpected"]
                              ELSE lastUpsert
             /\ helped' = [n |-> helped.n + 1, target |-> tgt,
                           answer |-> IF missed THEN AnswerKind(got) ELSE "",
                           regions |-> h.regions, raised |-> h.raised,
                           status |-> h.status, err |-> h.err, rows |-> h.recs]
    /\ UNCHANGED <<procVars, gateVars, readVars>>

HelperNext ==
    \E tgt \in RecentDates, res \in FetchResults, commitOk \in BOOLEAN :
        HelperCall(tgt, res, commitOk)

SpecHelper == Init /\ [][HelperNext]_vars

\* SpecRead: get_by_date called directly on tables that create_or_update_bulk
\* builds from the empty table.
ReadItems ==
    {Item(Yesterday, <<"1">>, <<"A">>, 1), Item(Yesterday, <<"2">>, <<"B">>, 1),
     Item(Yesterday, <<"3">>, <<"C">>, 2), Item(Today, <<"1">>, <<"A">>, 2)}

ReadTables ==
    {create_or_update_bulk({}, b, TRUE).rows :
        b \in UNION {[1..n -> ReadItems] : n \in 0..MaxRows}}

SortFields == {NoSort, "", "population"} \cup Columns \cup ClassAttrs

SortOrders == {"asc", "desc", "ASC"}

ReadCall(d, sort_by, sort_order) ==
    /\ \E r \in get_by_date_sorted(store, d, sort_by, sort_order) :
           lastRead' = [date |-> d, sort_by |-> sort_by, sort_order |-> sort_order,
                        ok |-> r.ok, rows |-> r.rows]
    /\ UNCHANGED <<procVars, storeVars, gateVars, helperVars>>

ReadInit ==
    /\ ProcIdle /\ GateIdle /\ ReadIdle /\ HelperIdle
    /\ store \in ReadTables
    /\ lastUpsert = NoUpsert

ReadNext ==
    \E d \in RecentDates, sort_by \in SortFields, sort_order \in SortOrders :
        ReadCall(d, sort_by, sort_order)

SpecRead == ReadInit /\ [][ReadNext]_vars

\* SpecIngest: requests made one after another against an upstream whose
\* every answer is the list rawIn, drawn from lists that also hold records
\* the schema of a stored row does not admit and a record of an older date.
\* The table starts empty or with yesterday's row of one region (a table the
\* requests of Spec leave behind).
LongCode == StrV(<<"1", "2", "3", "4">>)

IngestRecords ==
    FeedRecords
    \cup {Rec(d, IntV(1), NameA, IntV(1)) : d \in {NoneV, DateStrV(0, TRUE)}}
    \cup {Rec(DateStrV(Yesterday, TRUE), c, NameA, IntV(1)) : c \in {NoneV, LongCode}}
    \cup {Rec(DateStrV(Yesterday, TRUE), IntV(1), NoneV, IntV(1)),
          Rec(DateStrV(Yesterday, TRUE), IntV(1), NameA, NegCase),
          Rec(DateStrV(Yesterday - 1, TRUE), IntV(1), NameA, IntV(1))}

IngestLists == UNION {[1..n -> IngestRecords] : n \in 0..MaxFeedLen}

IngestInit ==
    /\ rawIn \in IngestLists
    /\ procOut = <<>>
    /\ procPc = "idle"
    /\ store \in {{}, {Row(1, Yesterday, <<"1">>, <<"A">>, 1)}}
    /\ lastUpsert = NoUpsert
    /\ GateIdle /\ ReadIdle /\ HelperIdle

IngestNext ==
    \/ \E tgt \in Dates : BeginHit(1, tgt)
    \/ \E tgt \in Dates : BeginMiss(1, tgt)
    \/ \E commitOk \in BOOLEAN : Resume(1, Fetched(rawIn), commitOk)

SpecIngest == IngestInit /\ [][IngestNext]_vars

----------------------------------------------------------------------------
(* Properties of the Cache Gate under overlapping and successive requests *)

\* C1 (as claimed): two overlapping requests for the same uncached date
\* cause one upstream fetch only - never are two fetches for one target date
\* in flight together.
C1_SingleFlight ==
    \A p, q \in Slots :
        (p # q /\ InFlight(p) /\ InFlight(q)) => call[p].target # call[q].target

\* C2 (as claimed): of two overlapping requests for the same uncached date at
\* most one executes create_or_update_bulk for a given reporting date (the
\* engine refusing no commit).
C2_NoDuplicateUpsert ==
    \A p, q \in Slots :
        (/\ p # q
         /\ call[p].pc = "done" /\ call[q].pc = "done"
         /\ call[p].twin /\ call[q].twin
         /\ call[p].target = call[q].target
         /\ ~call[p].refused /\ ~call[q].refused
         /\ call[p].upsertDate # 0)
        => call[q].upsertDate # call[p].upsertDate

Paired == pair # NoPair /\ pair.first.status = 200

\* C3 (as claimed): a request for a date right after a successful request for
\* the same date returns the same rows and fetches nothing.
C3_IdempotentGate ==
    Paired =>
        /\ pair.second.status = 200
        /\ pair.second.rows = pair.first.rows
        /\ pair.second.fetches = 0

\* C3 (amended): the same, for a first request whose returned rows carry the
\* target date itself (not rows of another date served for "today").
C3_IdempotentGateOnTargetRows ==
    (Paired /\ pair.first.rows[1].submission_date = pair.first.target) =>
        /\ pair.second.status = 200
        /\ pair.second.rows = pair.first.rows
        /\ pair.second.fetches = 0

\* C3 witness: the first request missed, fetched and stored two regions under
\* its target date; the second request for that date has completed.
C3_Witness ==
    /\ Paired
    /\ pair.first.fetches = 1
    /\ Len(pair.first.rows) = 2
    /\ pair.first.rows[1].submission_date = pair.first.target
    /\ pair.second.status = 200

----------------------------------------------------------------------------
(* Properties of create_or_update_bulk *)

Upserted == lastUpsert.n > 0

\* C4: whatever create_or_update_bulk calls were made, failed ones included,
\* no two stored rows share (submission_date, region_name).
C4_UniqueDateName ==
    \A r1, r2 \in store :
        (r1.submission_date = r2.submission_date /\ r1.region_name = r2.region_name)
            => r1 = r2

\* C4 witness: after a call that the unique constraint made fail, the table
\* holds two rows of one date.
C4_Witness ==
    /\ Upserted /\ ~lastUpsert.ok /\ lastUpsert.commitOk
    /\ \E r1, r2 \in store : r1 # r2 /\ r1.submission_date = r2.submission_date

SameFields(r, item) ==
    /\ r.submission_date = item.submission_date
    /\ r.region_code = item.region_code
    /\ r.region_name = item.region_name
    /\ r.total_positive_cases = item.total_positive_cases

\* C5 (as claimed): the upsert is keyed on (submission_date, region_name) - a
\* one-row batch whose date and name are those of a stored row overwrites
\* that row, any other one-row batch inserts a row, and neither fails (the
\* engine accepting the commit).
C5_KeyedOnDateAndName ==
    (Upserted /\ lastUpsert.commitOk /\ Len(lastUpsert.batch) = 1) =>
        LET item == lastUpsert.batch[1]
            old == {r \in lastUpsert.before :
                        /\ r.submission_date = item.submission_date
                        /\ r.region_name = item.region_name}
        IN  /\ lastUpsert.ok
            /\ \E r \in store : SameFields(r, item) /\ (old # {} => r \in {[o EXCEPT
                    !.region_code = item.region_code,
                    !.total_positive_cases = item.total_positive_cases] : o \in old})
            /\ (old = {} => Cardinality(store) = Cardinality(lastUpsert.before) + 1)

\* The last row of the batch with the date and code of row i.
LastFor(batch, i) ==
    LET same == {j \in 1..Len(batch) :
                    /\ batch[j].submission_date = batch[i].submission_date
                    /\ batch[j].region_code = batch[i].region_code}
    IN  batch[CHOOSE j \in same : \A k \in same : k <= j]

\* C6: a create_or_update_bulk call either commits every row of its batch or
\* leaves the table exactly as it was.
C6_AllOrNothing ==
    Upserted =>
        IF lastUpsert.ok
        THEN \A i \in 1..Len(lastUpsert.batch) :
                \E r \in store : SameFields(r, LastFor(lastUpsert.batch, i))
        ELSE store = lastUpsert.before

\* C6 witness: a two-row batch failed on its second row after its first row
\* had been flushed into the transaction.
C6_Witness ==
    /\ Upserted /\ ~lastUpsert.ok /\ lastUpsert.commitOk
    /\ Len(lastUpsert.batch) = 2
    /\ BulkLoop(lastUpsert.before, <<lastUpsert.batch[1]>>).ok
    /\ BulkLoop(lastUpsert.before, <<lastUpsert.batch[1]>>).rows # lastUpsert.before

\* The step is a create_or_update_bulk call with the batch of the call before
\* it, which succeeded; the engine accepts this call's commit.
Reapplies ==
    /\ Upserted /\ lastUpsert.ok
    /\ lastUpsert'.n = lastUpsert.n + 1
    /\ lastUpsert'.batch = lastUpsert.batch
    /\ lastUpsert'.commitOk

\* C23 (as claimed): create_or_update_bulk applied a second time in
\* succession with the same batch does not fail and leaves the table as the
\* first application left it - same rows, same field values, no further row.
C23_UpsertIdempotent ==
    [][Reapplies => (lastUpsert'.ok /\ store' = store)]_vars

\* C26: no step deletes a row - every stored row, identified by
\* (submission_date, region_code), is still stored after the step - and so a
\* date for which data_exists_for_date is true stays so.
C26_RowsNeverDeleted ==
    [][/\ \A r \in store : \E q \in store' :
             /\ q.submission_date = r.submission_date
             /\ q.region_code = r.region_code
       /\ \A d \in Dates :
             data_exists_for_date(store, d) => data_exists_for_date(store', d)]_vars

\* C26 witness: a successful call has rewritten a stored row in place (the
\* row as it was is gone, its key is not) beside a row it left alone.
C26_Witness ==
    /\ Upserted /\ lastUpsert.ok
    /\ \E r \in lastUpsert.before : r \notin store
    /\ \E r \in lastUpsert.before : r \in store

\* Some row of the batch has the (submission_date, region_code) of row r.
InBatch(batch, r) ==
    \E i \in 1..Len(batch) :
        /\ batch[i].submission_date = r.submission_date
        /\ batch[i].region_code = r.region_code

\* C31: after a successful create_or_update_bulk call every row the table
\* held whose (submission_date, region_code) is that of no batch row is
\* stored unchanged; so is every row of a date the batch does not name.
C31_UpsertFrame ==
    (Upserted /\ lastUpsert.ok) =>
        /\ \A r \in lastUpsert.before : ~InBatch(lastUpsert.batch, r) => r \in store
        /\ \A r \in lastUpsert.before :
              (\A i \in 1..Len(lastUpsert.batch) :
                  lastUpsert.batch[i].submission_date # r.submission_date) => r \in store

\* C31 witness: a successful two-row call updated one stored row and
\* inserted a row, beside a stored row that its batch does not name.
C31_Witness ==
    /\ Upserted /\ lastUpsert.ok /\ Len(lastUpsert.batch) = 2
    /\ Cardinality(store) = Cardinality(lastUpsert.before) + 1
    /\ \E r \in lastUpsert.before : InBatch(lastUpsert.batch, r) /\ r \notin store
    /\ \E r \in lastUpsert.before : ~InBatch(lastUpsert.batch, r) /\ r \in store

----------------------------------------------------------------------------
(* Properties of process_provincial_data *)

\* The record passes every check of the loop body (it is not skipped).
Normalizes(r) ==
    /\ Truthy(r.data) /\ r.data.t = "datestr" /\ r.data.head >= 1
    /\ r.codice_regione.t # "none" /\ Strip(PyStr(r.codice_regione)) # <<>>
    /\ Truthy(r.denominazione_regione) /\ Strip(PyStr(r.denominazione_regione)) # <<>>
    /\ (r.totale_casi.t = "none" \/ Strip(PyStr(r.totale_casi)) = <<>> \/ PyInt(r.totale_casi).ok)

\* The case-count field is None, empty or all whitespace.
ZeroLike(v) == v.t = "none" \/ (v.t = "str" /\ Strip(v.s) = <<>>)

\* The case-count field is a string that is no integer.
NonNumeric(v) == v.t = "str" /\ Strip(v.s) # <<>> /\ ~PyInt(v).ok

CodeOf(r) == Strip(PyStr(r.codice_regione))

RemoveAt(s, i) == SubSeq(s, 1, i - 1) \o SubSeq(s, i + 1, Len(s))

\* The (region_code, total_positive_cases) pairs of an output list.
Totals(out) == {<<out[i].region_code, out[i].total_positive_cases>> : i \in 1..Len(out)}

OutCodes(out) == {out[i].region_code : i \in 1..Len(out)}

FirstNormalized(raw) ==
    CHOOSE i \in 1..Len(raw) : Normalizes(raw[i]) /\ \A j \in 1..(i - 1) : ~Normalizes(raw[j])

\* C7 (as claimed): every output record carries one submission_date, the date
\* of the first record in input order that normalizes successfully.
C7_AdoptedDateOfFirstNormalized ==
    (procPc = "done" /\ procOut # <<>>) =>
        \A i \in 1..Len(procOut) :
            procOut[i].submission_date = rawIn[FirstNormalized(rawIn)].data.head

\* C8: with exactly one record whose case count is non-numeric, the regions
\* and their totals are those of the batch without that record.
C8_SkipOnBadRecord ==
    procPc = "done" =>
        \A i \in 1..Len(rawIn) :
            (/\ NonNumeric(rawIn[i].totale_casi)
             /\ \A j \in 1..Len(rawIn) : NonNumeric(rawIn[j].totale_casi) => j = i)
            => Totals(procOut) = Totals(process_provincial_data(RemoveAt(rawIn, i)))

\* C8 witness: a three-record batch whose only bad record is otherwise well
\* formed and is the only record of its region, the other two being accepted.
C8_Witness ==
    /\ procPc = "done" /\ Len(rawIn) = 3
    /\ \E i \in 1..3 :
         /\ NonNumeric(rawIn[i].totale_casi)
         /\ Normalizes([rawIn[i] EXCEPT !.totale_casi = IntV(1)])
         /\ \A j \in (1..3) \ {i} : Normalizes(rawIn[j]) /\ CodeOf(rawIn[j]) # CodeOf(rawIn[i])
    /\ Len(procOut) = 1

\* C9: a record whose case count is None, empty or blank is kept and counts
\* 0 for its region, which appears in the output; a record whose case count
\* is a non-integer string adds no region entry of its own.
C9_ZeroVsError ==
    procPc = "done" =>
        \A i \in 1..Len(rawIn) :
            LET r == rawIn[i]
                asZero == [rawIn EXCEPT ![i].totale_casi = IntV(0)]
            IN  /\ (ZeroLike(r.totale_casi) /\ Normalizes([r EXCEPT !.totale_casi = IntV(0)]))
                     => /\ CodeOf(r) \in OutCodes(procOut)
                        /\ Totals(procOut) = Totals(process_provincial_data(asZero))
                /\ (/\ NonNumeric(r.totale_casi)
                    /\ r.codice_regione.t # "none"
                    /\ \A j \in 1..Len(rawIn) :
                          (Normalizes(rawIn[j]) /\ rawIn[j].codice_regione.t # "none")
                              => CodeOf(rawIn[j]) # CodeOf(r))
                     => CodeOf(r) \notin OutCodes(procOut)

\* C9 witness: one batch holds a record with a blank count that is the only
\* record of its region, and a record with count "XYZ".
C9_Witness ==
    /\ procPc = "done"
    /\ \E i, j \in 1..Len(rawIn) :
         /\ ZeroLike(rawIn[i].totale_casi) /\ Normalizes(rawIn[i])
         /\ NonNumeric(rawIn[j].totale_casi)
         /\ \A k \in 1..Len(rawIn) : k # i => ~Normalizes(rawIn[k])
    /\ Len(procOut) = 1 /\ procOut[1].total_positive_cases = 0

Permute(s, p) == [i \in 1..Len(s) |-> s[p[i]]]

\* C10: for valid records sharing a region code, every permutation of the
\* batch yields the same total for that region.
C10_AggregationCommutes ==
    (/\ procPc = "done" /\ rawIn # <<>>
     /\ \A i \in 1..Len(rawIn) :
          Normalizes(rawIn[i]) /\ CodeOf(rawIn[i]) = CodeOf(rawIn[1]))
    => \A p \in Permutations(1..Len(rawIn)) :
          Totals(process_provincial_data(Permute(rawIn, p))) = Totals(procOut)

\* C10 witness: three valid records of one region with differing counts.
C10_Witness ==
    /\ procPc = "done" /\ Len(rawIn) = 3
    /\ \A i \in 1..3 : Normalizes(rawIn[i]) /\ CodeOf(rawIn[i]) = CodeOf(rawIn[1])
    /\ get_int_value(rawIn[1].totale_casi).n # get_int_value(rawIn[3].totale_casi).n
    /\ Len(procOut) = 1 /\ procOut[1].total_positive_cases >= 4

\* The sum of the case counts of the accepted records of raw with that code.
RECURSIVE SumCases(_, _)
SumCases(raw, code) ==
    IF raw = <<>> THEN 0
    ELSE (IF Normalizes(Head(raw)) /\ CodeOf(Head(raw)) = code
          THEN get_int_value(Head(raw).totale_casi).n ELSE 0)
         + SumCases(Tail(raw), code)

AcceptedCodes(raw) == {CodeOf(raw[i]) : i \in {j \in 1..Len(raw) : Normalizes(raw[j])}}

\* C11: the output has exactly one record for each region code carried by
\* an accepted record and none for any other code, and each record's total
\* is the sum of the case counts of the accepted records with its code.
C11_GroupTotals ==
    procPc = "done" =>
        /\ Len(procOut) = Cardinality(AcceptedCodes(rawIn))
        /\ OutCodes(procOut) = AcceptedCodes(rawIn)
        /\ \A i \in 1..Len(procOut) :
              procOut[i].total_positive_cases = SumCases(rawIn, procOut[i].region_code)

\* C11 witness: three accepted records over two region codes, the two that
\* share a code carrying different names; the output has two records.
C11_Witness ==
    /\ procPc = "done" /\ Len(rawIn) = 3
    /\ \A i \in 1..3 : Normalizes(rawIn[i])
    /\ \E i, j \in 1..3 :
         /\ i # j /\ CodeOf(rawIn[i]) = CodeOf(rawIn[j])
         /\ Strip(PyStr(rawIn[i].denominazione_regione))
                # Strip(PyStr(rawIn[j].denominazione_regione))
    /\ Len(procOut) = 2
    /\ \E i \in 1..2 : procOut[i].total_positive_cases >= 3

----------------------------------------------------------------------------
(* Properties of one Cache Gate call *)

\* The step in which the fetch of the request in slot p is answered and the
\* request runs to its end.
Resumes(p) == call[p].pc = "fetching" /\ call'[p].pc = "done"

\* C12: when the upstream answers the fetch with 404 (DataNotFoundError) the
\* request ends in the 404 of SourceDataUnavailable and the step leaves the
\* table exactly as it was.
C12_UnpublishedDate ==
    [][\A p \in Slots :
          (Resumes(p) /\ call'[p].answer = "not_found")
              => (call'[p].status = 404 /\ store' = store)]_vars

\* C12 witness: a request answered by DataNotFoundError has ended while the
\* table holds rows.
C12_Witness ==
    \E p \in Slots :
        call[p].pc = "done" /\ call[p].answer = "not_found" /\ store # {}

\* A request that went to the upstream and has ended.
Fetched1(p) == call[p].pc = "done" /\ call[p].fetches = 1

\* C13: DataNotFoundError and an empty raw list end the request in the 404
\* of SourceDataUnavailable, any other fetch error in the 502 of
\* UpstreamFailure; in none of these cases is process_provincial_data or
\* create_or_update_bulk called.
C13_FetchOutcomeMapping ==
    \A p \in Slots :
        (Fetched1(p) /\ call[p].answer \in {"not_found", "empty", "error"}) =>
            /\ call[p].status = (IF call[p].answer = "error" THEN 502 ELSE 404)
            /\ ~call[p].aggregated
            /\ call[p].upsertDate = 0

\* C13 witness: one request ended on a fetch error that is not a 404, another
\* on an empty raw list.
C13_Witness ==
    \E p, q \in Slots :
        /\ Fetched1(p) /\ call[p].answer = "error"
        /\ Fetched1(q) /\ call[q].answer = "empty"

\* C14: when a non-empty raw list was fetched and process_provincial_data
\* returns no region, the request ends in the 500 of ProcessingFailure and
\* create_or_update_bulk is not called.
C14_ProcessingFailure ==
    \A p \in Slots :
        (Fetched1(p) /\ call[p].answer = "data" /\ call[p].regions = 0) =>
            /\ call[p].status = 500
            /\ call[p].upsertDate = 0

\* C14 witness: a request whose fetched list was aggregated into nothing has
\* ended.
C14_Witness ==
    \E p \in Slots :
        /\ Fetched1(p) /\ call[p].answer = "data"
        /\ call[p].aggregated /\ call[p].regions = 0

\* The request in slot p is resumed, its fetched list aggregates to at least
\* one region and ensure_data_is_available returns: the adopted date was
\* stored already, or create_or_update_bulk succeeds.
Ingests(p) ==
    /\ Resumes(p) /\ call'[p].regions >= 1
    /\ (data_exists_for_date(store, call'[p].adopted) \/ call'[p].upsertOk)

\* C15 (as claimed): on a cache miss that completes fetch, aggregation and
\* the reconcile/upsert step, the rows returned are exactly the stored rows
\* of the adopted date, also when that date is not the target date.
C15_EffectiveDate ==
    [][\A p \in Slots :
          Ingests(p) => /\ call'[p].status = 200
                        /\ call'[p].rows = get_by_date(store', call'[p].adopted)]_vars

\* The request in slot p went to the upstream, aggregated at least one region
\* and ensure_data_is_available returned without raising.
Ensured(p) == Fetched1(p) /\ call[p].regions >= 1 /\ call[p].err # "internal"

\* C16 (as claimed, with the aggregated regions stored or found stored): a
\* request for today whose latest feed adopts a date other than today ends
\* without error and every row it returns carries the adopted date, whatever
\* other dates the table holds.
C16_TodayResolvesElsewhere ==
    \A p \in Slots :
        (Ensured(p) /\ call[p].target = Today /\ call[p].adopted # Today) =>
            /\ call[p].status = 200
            /\ \A i \in 1..Len(call[p].rows) :
                  call[p].rows[i].submission_date = call[p].adopted

\* What the request in slot p aggregates from the upstream list rawIn.
AggregatedBy(p) ==
    process_provincial_data(IF call[p].fetcher = "by_date" THEN AsCsv(rawIn) ELSE rawIn)

\* C17 (as claimed): after aggregation, if the table already holds a row of
\* the adopted date the request makes no create_or_update_bulk call and
\* leaves the table unchanged; otherwise it calls create_or_update_bulk
\* exactly once, with the aggregated batch.
C17_ReconcileDate ==
    [][\A p \in Slots :
          (Resumes(p) /\ call'[p].regions >= 1) =>
              IF data_exists_for_date(store, call'[p].adopted)
              THEN /\ call'[p].upsertDate = 0
                   /\ lastUpsert' = lastUpsert
                   /\ store' = store
              ELSE /\ call'[p].upsertDate = call'[p].adopted
                   /\ lastUpsert'.n = lastUpsert.n + 1
                   /\ lastUpsert'.batch = AggregatedBy(p)]_vars

\* The step in which a request begins in slot p.
Begins(p) == started' = started + 1 /\ call[p].pc # "fetching" /\ call'[p] # call[p]

\* C18: a request whose target date has a stored row when it arrives makes
\* no upstream fetch and no create_or_update_bulk call, leaves the table
\* unchanged and returns the rows stored for the target date.
C18_CacheHit ==
    [][\A p \in Slots :
          (Begins(p) /\ data_exists_for_date(store, call'[p].target)) =>
              /\ call'[p].pc = "done" /\ call'[p].fetches = 0
              /\ call'[p].upsertDate = 0 /\ lastUpsert' = lastUpsert
              /\ store' = store
              /\ call'[p].status = 200
              /\ call'[p].rows = get_by_date(store, call'[p].target)]_vars

\* C18 witness: a request served from the table, without a fetch, has
\* returned two rows.
C18_Witness ==
    \E p \in Slots :
        /\ call[p].pc = "done" /\ call[p].fetches = 0
        /\ call[p].status = 200 /\ Len(call[p].rows) = 2

\* What one step may do to the request in slot p: issue its one fetch before
\* any upsert; while the fetch is awaited, nothing but await or end; end in
\* one outcome with at most one create_or_update_bulk call; and once ended,
\* nothing more until a new request takes the slot.
OnePassStep(p) ==
    /\ (call[p].pc # "fetching" /\ call'[p].pc = "fetching")
          => (call'[p].fetches = 1 /\ call'[p].upsertDate = 0)
    /\ call[p].pc = "fetching"
          => /\ call'[p].fetches = 1
             /\ call'[p].pc = "fetching" => [call'[p] EXCEPT !.twin = FALSE]
                                              = [call[p] EXCEPT !.twin = FALSE]
    /\ Resumes(p)
          => /\ call'[p].status \in {200, 404, 500, 502}
             /\ call'[p].status = 200 <=> call'[p].err = ""
             /\ IF call'[p].upsertDate # 0
                THEN lastUpsert'.n = lastUpsert.n + 1
                ELSE lastUpsert' = lastUpsert /\ store' = store
    /\ call[p].pc = "done" => (call'[p] = call[p] \/ Begins(p))

\* C25: a request issues at most one upstream fetch and at most one
\* create_or_update_bulk call, the fetch before the upsert, repeats neither
\* after a failure, and every request whose fetch is awaited ends, in
\* success or in one error outcome.
C25_OnePassPerCall ==
    /\ [][/\ \A p \in Slots : OnePassStep(p)
          /\ lastUpsert' # lastUpsert => \E p \in Slots : Resumes(p)]_vars
    /\ \A p \in Slots : InFlight(p) ~> call[p].pc = "done"

\* C25 witness: a request has ended on a fetch failure, with one fetch made
\* and no upsert, while the other has ended after one fetch and one failed
\* create_or_update_bulk call.
C25_Witness ==
    \E p, q \in Slots :
        /\ Fetched1(p) /\ call[p].answer = "error" /\ call[p].upsertDate = 0
        /\ Fetched1(q) /\ call[q].upsertDate # 0 /\ ~call[q].upsertOk

\* A request that missed the cache: it has issued a fetch.
Missed(p) == call[p].pc \in {"fetching", "done"} /\ call[p].fetches >= 1

\* C27: a request that misses the cache calls the latest (JSON) fetch when
\* and only when its target date is today, and otherwise the dated (CSV)
\* fetch, with the target date itself; it makes one fetch call, never both.
C27_FetchRouting ==
    \A p \in Slots :
        Missed(p) =>
            /\ call[p].fetches = 1
            /\ call[p].fetcher = "latest" <=> call[p].target = Today
            /\ call[p].fetcher = "by_date" <=> call[p].target # Today
            /\ call[p].fetcher = "by_date" => call[p].fetchDate = call[p].target

\* C27 witness: two requests are in flight at once, one awaiting the latest
\* fetch and one the dated fetch.
C27_Witness ==
    \E p, q \in Slots :
        /\ InFlight(p) /\ call[p].fetcher = "latest"
        /\ InFlight(q) /\ call[q].fetcher = "by_date" /\ call[q].fetchDate = Yesterday

RowsOf(rows, d) == {r \in rows : r.submission_date = d}

\* C29: with requests made one after another, a step leaves the rows of
\* every date that has rows exactly as they are, and a create_or_update_bulk
\* call made by a request never finds a row to update - neither in the table
\* nor among the rows its own batch has put there.
C29_WriteOncePerDate ==
    [][/\ \A d \in Dates :
             data_exists_for_date(store, d) => RowsOf(store', d) = RowsOf(store, d)
       /\ lastUpsert' # lastUpsert =>
             LET batch == lastUpsert'.batch
             IN  \A i \in 1..Len(batch) :
                    /\ get_by_date_and_region_code(store, batch[i].submission_date,
                                                    batch[i].region_code) = {}
                    /\ \A j \in 1..(i - 1) :
                          \/ batch[j].submission_date # batch[i].submission_date
                          \/ batch[j].region_code # batch[i].region_code]_vars

\* C29 witness: the first request stored two regions of a date; the second,
\* for today, fetched a list that adopts that date again and has ended.
C29_Witness ==
    /\ started = 2 /\ lastUpsert.n = 1 /\ lastUpsert.ok /\ Len(lastUpsert.batch) = 2
    /\ Fetched1(1) /\ call[1].target = Today /\ call[1].regions >= 1
    /\ call[1].upsertDate = 0
    /\ store = BulkLoop(lastUpsert.before, lastUpsert.batch).rows
    /\ data_exists_for_date(store, call[1].adopted)

\* The step in which the request in slot p ends, from the cache or after its
\* fetch was answered (all a request writes, it writes in this step).
Ends(p) == call'[p].pc = "done" /\ call'[p] # call[p]

\* C30 (as claimed): a get_regional_data request that ends in an error
\* outcome leaves the table with exactly the rows it held.
C30_ErrorsLeaveStoreUntouched ==
    [][\A p \in Slots : (Ends(p) /\ call'[p].status # 200) => store' = store]_vars

\* C32 (as claimed): in _get_and_process_data_for_date a fetch that returns
\* an empty raw list ends the call in the 404 'no raw data' outcome raised
\* at that point, and an empty aggregate ends it in the 'could not be
\* processed' outcome; neither is replaced by the generic 'unexpected
\* internal server error' outcome.
C32_HelperKeepsItsOutcomes ==
    /\ helped.answer = "empty"
          => (helped.status = 404 /\ helped.err = "no_raw")
    /\ (helped.answer = "data" /\ helped.regions = 0)
          => (helped.status = 500 /\ helped.err = "not_processed")

\* The record meets every constraint of a canonical province record: the
\* loop body accepts it, its region code has at most three characters and
\* its case count is not negative.
Canonical(r) ==
    /\ Normalizes(r)
    /\ Len(CodeOf(r)) <= 3
    /\ get_int_value(r.totale_casi).n >= 0

\* C19 (as claimed): when the fetched list holds at least one canonical
\* record and exactly one record that violates a constraint, the request
\* does not fail in ensure_data_is_available (the engine accepting the
\* commit) and what it aggregates is what the list without that record gives.
C19_FailureIsolation ==
    \A p \in Slots :
        (/\ Fetched1(p) /\ call[p].answer = "data" /\ ~call[p].refused
         /\ \E i \in 1..Len(rawIn) : Canonical(rawIn[i])) =>
            \A i \in 1..Len(rawIn) :
                (/\ ~Canonical(rawIn[i])
                 /\ \A j \in 1..Len(rawIn) : ~Canonical(rawIn[j]) => j = i) =>
                    /\ call[p].err \notin {"internal", "not_processed"}
                    /\ Totals(AggregatedBy(p))
                         = Totals(process_provincial_data(RemoveAt(rawIn, i)))

NameOf(r) == Strip(PyStr(r.denominazione_regione))

\* The first record of raw, in input order, that is accepted with that code.
FirstWithCode(raw, code) ==
    CHOOSE i \in 1..Len(raw) :
        /\ Normalizes(raw[i]) /\ CodeOf(raw[i]) = code
        /\ \A j \in 1..(i - 1) : ~(Normalizes(raw[j]) /\ CodeOf(raw[j]) = code)

\* C24: the region_name of each output record is the trimmed name of the
\* first accepted record with its code; neither a later accepted record with
\* another name nor a skipped record changes it.
C24_FirstSeenName ==
    procPc = "done" =>
        \A i \in 1..Len(procOut) :
            procOut[i].region_name
                = NameOf(rawIn[FirstWithCode(rawIn, procOut[i].region_code)])

\* C24 witness: three records of one code - the first skipped for its case
\* count, the second accepted with an untrimmed name, the third accepted
\* with another name; the output carries the second's name, trimmed.
C24_Witness ==
    /\ procPc = "done" /\ Len(rawIn) = 3 /\ Len(procOut) = 1
    /\ NonNumeric(rawIn[1].totale_casi) /\ Normalizes(rawIn[2]) /\ Normalizes(rawIn[3])
    /\ CodeOf(rawIn[1]) = CodeOf(rawIn[2]) /\ CodeOf(rawIn[2]) = CodeOf(rawIn[3])
    /\ NameOf(rawIn[2]) # PyStr(rawIn[2].denominazione_regione)
    /\ NameOf(rawIn[1]) # NameOf(rawIn[2]) /\ NameOf(rawIn[3]) # NameOf(rawIn[2])
    /\ procOut[1].region_name = NameOf(rawIn[2])
    /\ procOut[1].total_positive_cases >= 2

\* C28 (as claimed): no two records of one process_provincial_data output
\* share (submission_date, region_name), so create_or_update_bulk of the
\* output into a table with no row of its date does not fail on the table's
\* unique constraint.
C28_AggregateFitsStoreKey ==
    procPc = "done" =>
        /\ \A i, j \in 1..Len(procOut) :
              (/\ procOut[i].submission_date = procOut[j].submission_date
               /\ procOut[i].region_name = procOut[j].region_name) => i = j
        /\ create_or_update_bulk({}, procOut, TRUE).ok

----------------------------------------------------------------------------
(* Properties of get_by_date *)

Read == lastRead.date # 0

\* The rows of the last read are the stored rows of its date, each once.
ReadsRowsOfDate ==
    /\ {lastRead.rows[i] : i \in 1..Len(lastRead.rows)}
          = {r \in store : r.submission_date = lastRead.date}
    /\ Len(lastRead.rows) = Cardinality({r \in store : r.submission_date = lastRead.date})

\* C21 (as claimed): get_by_date with no sort field, or with one that is no
\* field of the stored record, returns the rows of the date by
\* total_positive_cases descending, then region_name ascending; with a field
\* of the stored record it returns them ordered by that field, descending
\* unless the direction is 'asc'.
C21_ReadOrder ==
    Read =>
        /\ lastRead.ok
        /\ ReadsRowsOfDate
        /\ \A i, j \in 1..Len(lastRead.rows) :
              i < j =>
                IF lastRead.sort_by \in Columns
                THEN IF lastRead.sort_order = "asc"
                     THEN ~ColLess(lastRead.sort_by, lastRead.rows[j], lastRead.rows[i])
                     ELSE ~ColLess(lastRead.sort_by, lastRead.rows[i], lastRead.rows[j])
                ELSE DefaultBefore(lastRead.rows[i], lastRead.rows[j])

\* C20 (as claimed): every record process_provincial_data accepts has a case
\* count >= 0, and every total_positive_cases it outputs is >= 0.
C20_NonNegativeCounts ==
    procPc = "done" =>
        /\ \A i \in 1..Len(rawIn) :
              Normalizes(rawIn[i]) => get_int_value(rawIn[i].totale_casi).n >= 0
        /\ \A i \in 1..Len(procOut) : procOut[i].total_positive_cases >= 0

====
